---- MODULE Spec2Model ----
(***************************************************************************)
(* stable-eyre: an eyre::EyreHandler that captures a backtrace::Backtrace   *)
(* on stable Rust (src/src/lib.rs).                                         *)
(*                                                                          *)
(* Two specifications share the variables below.                            *)
(*   Spec      the process-wide life cycle: the environment, eyre's global  *)
(*             hook slot, the install calls and the reports constructed.    *)
(*   SpecDebug Handler::debug as a function of the handler, the error, the  *)
(*             formatter's alternate flag and a sink that may fail.         *)
(***************************************************************************)
EXTENDS Naturals, Sequences, FiniteSets

VARIABLES
    env,         \* the process environment: the values of the two variables
    hook,        \* eyre's global hook slot (write-once)
    installLog,  \* the install calls made so far, with what each returned
    reports,     \* the eyre::Report values constructed so far
    self,        \* SpecDebug: the Handler that debug is called on
    error,       \* SpecDebug: the error passed to debug (outer error first)
    f,           \* SpecDebug: the formatter (alternate flag and the sink)
    ret          \* SpecDebug: what debug returned

vars == <<env, hook, installLog, reports, self, error, f, ret>>

-----------------------------------------------------------------------------
(* Bounds *)

MaxInstalls == 3
MaxReports == 2
MaxCauses == 2
MaxFailAt == 8

-----------------------------------------------------------------------------
(* std::env: a variable is absent, holds a Unicode string, or holds bytes   *)
(* that are not valid Unicode.                                              *)

Absent == [tag |-> "absent", val |-> ""]
NotUnicodeValue == [tag |-> "bytes", val |-> ""]
Str(s) == [tag |-> "str", val |-> s]

StrValues == {"0", "1", ""}
OsValues == {Str(s) : s \in StrValues} \cup {NotUnicodeValue}
VarNames == {"RUST_LIB_BACKTRACE", "RUST_BACKTRACE"}

\* std::env::var(name): Ok(value) iff the variable is present and valid
\* Unicode; Err(NotPresent) or Err(NotUnicode) otherwise.
env_var(e, name) ==
    IF e[name].tag = "str" THEN [ok |-> TRUE, val |-> e[name].val]
    ELSE IF e[name].tag = "absent" THEN [ok |-> FALSE, val |-> "NotPresent"]
    ELSE [ok |-> FALSE, val |-> "NotUnicode"]

-----------------------------------------------------------------------------
(* HookBuilder *)

None == "None"
SomeBacktrace == "Some(Backtrace)"

\* impl Default for HookBuilder
HookBuilder_default == [capture_backtrace_by_default |-> FALSE]

capture_backtrace_by_default_ignored(builder, cond) == builder

\* HookBuilder::capture_backtrace_by_default(mut self, cond)
capture_backtrace_by_default(builder, cond) ==
    [builder EXCEPT !.capture_backtrace_by_default = cond]

capture_enabled_ignores_env(builder, e) ==
    builder.capture_backtrace_by_default

capture_enabled_general_first(builder, e) ==
    LET gen == env_var(e, "RUST_BACKTRACE")
        got == IF gen.ok THEN gen ELSE env_var(e, "RUST_LIB_BACKTRACE")
    IN  IF got.ok THEN got.val # "0" ELSE builder.capture_backtrace_by_default

\* HookBuilder::capture_enabled(&self)
\*   env::var(LIB).or_else(|_| env::var(GEN)).map(|v| v != "0").unwrap_or(default)
capture_enabled(builder, e) ==
    LET lib == env_var(e, "RUST_LIB_BACKTRACE")
        got == IF lib.ok THEN lib ELSE env_var(e, "RUST_BACKTRACE")
    IN  IF got.ok THEN got.val # "0" ELSE builder.capture_backtrace_by_default

\* HookBuilder::make_handler(&self, error)
make_handler(builder, e) ==
    [type |-> "Handler",
     backtrace |-> IF capture_enabled(builder, e) THEN SomeBacktrace ELSE None]

-----------------------------------------------------------------------------
(* eyre's hook slot and HookBuilder::install *)

NoHook == [kind |-> "none", builder |-> HookBuilder_default]
StableHook(builder) == [kind |-> "stable", builder |-> builder]
DefaultHook == [kind |-> "default", builder |-> HookBuilder_default]
ForeignHook == [kind |-> "foreign", builder |-> HookBuilder_default]

\* eyre::set_hook(hook): fills the slot if it is empty, else Err(InstallError)
set_hook(slot, new) ==
    IF slot.kind = "none" THEN [ok |-> TRUE, hook |-> new]
    ELSE [ok |-> FALSE, hook |-> slot]

HookBuilder_install_swallows_error(builder, slot) ==
    [hook |-> set_hook(slot, StableHook(builder)).hook, result |-> "Ok"]

\* HookBuilder::install(self): set_hook(...)?; Ok(())
HookBuilder_install(builder, slot) ==
    LET r == set_hook(slot, StableHook(builder))
    IN  [hook |-> r.hook,
         result |-> IF r.ok THEN "Ok" ELSE "AlreadyInstalled"]

\* stable_eyre::install(): HookBuilder::default().install()
install(slot) == HookBuilder_install(HookBuilder_default, slot)

-----------------------------------------------------------------------------
(* BacktraceExt *)

backtrace_without_downcast(report) == report.handler.backtrace

\* <eyre::Report as BacktraceExt>::backtrace(&self)
\*   self.handler().downcast_ref::<Handler>().and_then(|h| h.backtrace.as_ref())
backtrace(report) ==
    IF report.handler.type = "Handler" THEN report.handler.backtrace ELSE None

-----------------------------------------------------------------------------
(* The life cycle: Spec *)

IdleSelf == [type |-> "Handler", backtrace |-> None]
IdleError == << <<"outer">> >>
IdleF == [alternate |-> FALSE, failAt |-> 0, out |-> <<>>, attempts |-> 0]
IdleRet == "pending"

DebugIdle ==
    /\ self = IdleSelf
    /\ error = IdleError
    /\ f = IdleF
    /\ ret = IdleRet

Init ==
    /\ env \in [VarNames -> {Absent} \cup OsValues]
    /\ hook = NoHook
    /\ installLog = <<>>
    /\ reports = <<>>
    /\ DebugIdle

\* a call of the module-level install()
Install ==
    /\ Len(installLog) < MaxInstalls
    /\ LET r == install(hook)
       IN  /\ hook' = r.hook
           /\ installLog' = Append(installLog,
                  [via |-> "install", cond |-> FALSE,
                   builder |-> HookBuilder_default, result |-> r.result])
    /\ UNCHANGED <<env, reports, self, error, f, ret>>

\* HookBuilder::default().capture_backtrace_by_default(cond).install()
BuilderInstall ==
    /\ Len(installLog) < MaxInstalls
    /\ \E cond \in BOOLEAN :
         LET b == capture_backtrace_by_default(HookBuilder_default, cond)
             r == HookBuilder_install(b, hook)
         IN  /\ hook' = r.hook
             /\ installLog' = Append(installLog,
                    [via |-> "builder", cond |-> cond,
                     builder |-> b, result |-> r.result])
    /\ UNCHANGED <<env, reports, self, error, f, ret>>

\* another crate registers its own handler through eyre::set_hook
ForeignSetHook ==
    /\ hook.kind = "none"
    /\ hook' = set_hook(hook, ForeignHook).hook
    /\ UNCHANGED <<env, installLog, reports, self, error, f, ret>>

\* std::env::set_var(name, value)
SetVar ==
    /\ \E name \in VarNames, v \in OsValues :
         env' = [env EXCEPT ![name] = v]
    /\ UNCHANGED <<hook, installLog, reports, self, error, f, ret>>

\* std::env::remove_var(name)
RemoveVar ==
    /\ \E name \in VarNames :
         env' = [env EXCEPT ![name] = Absent]
    /\ UNCHANGED <<hook, installLog, reports, self, error, f, ret>>

\* eyre!(...): the report takes its handler from the active hook; with the
\* slot still empty eyre fills it with its DefaultHandler hook first.
NewReport ==
    /\ Len(reports) < MaxReports
    /\ LET active == IF hook.kind = "none" THEN DefaultHook ELSE hook
       IN  /\ hook' = active
           /\ \E other \in {None, SomeBacktrace} :
                LET h == IF active.kind = "stable"
                           THEN make_handler(active.builder, env)
                         ELSE IF active.kind = "default"
                           THEN [type |-> "DefaultHandler", backtrace |-> other]
                         ELSE [type |-> "ForeignHandler", backtrace |-> other]
                IN  reports' = Append(reports, [handler |-> h])
    /\ UNCHANGED <<env, installLog, self, error, f, ret>>

Next ==
    \/ Install
    \/ BuilderInstall
    \/ ForeignSetHook
    \/ SetVar
    \/ RemoveVar
    \/ NewReport

Spec == Init /\ [][Next]_vars

-----------------------------------------------------------------------------
(* Handler::debug: errors, the formatter and what is written to it *)

\* An error is its cause chain, outer error first; each element is the
\* display text of one error as its lines.
Msgs == {<<"outer">>, <<"middle">>, <<"inner">>, <<"first line", "second line">>}

RECURSIVE Chains(_)
Chains(n) ==
    IF n = 0 THEN {<<>>}
    ELSE {<<m>> \o c : m \in Msgs, c \in Chains(n - 1)}

Errors == UNION {Chains(n) : n \in 1..(MaxCauses + 1)}

\* What one write to the sink carries.
Lit(s) == [k |-> "lit", s |-> s, n |-> 0]
Text(s) == [k |-> "text", s |-> s, n |-> 0]
Number(n) == [k |-> "number", s |-> "", n |-> n]
Indentation == [k |-> "indent", s |-> "", n |-> 0]
DebugRepr(err) == [k |-> "debug", s |-> err[1][1], n |-> Len(err)]
BacktraceRepr == [k |-> "backtrace", s |-> "", n |-> 0]

CausedBy == Lit("\n\nCaused by:")
StackBacktrace == Lit("\n\nStack backtrace:\n")
Newline == Lit("\n")

\* Error::source(): the chain from the next cause on, <<>> when there is none
source(err) == Tail(err)

\* "{}" of an error: its display text, line by line
RECURSIVE Lines(_)
Lines(msg) ==
    IF Len(msg) = 1 THEN <<Text(msg[1])>>
    ELSE <<Text(msg[1]), Newline>> \o Lines(Tail(msg))

Display(err) == Lines(err[1])

\* indenter: write!(indented(f), "{}", e) puts the indentation before every
\* line; write!(indented(f).ind(n), "{}", e) puts the number before the first
\* line and the indentation before the others.
RECURSIVE IndentedLines(_, _)
IndentedLines(msg, first) ==
    IF Len(msg) = 1 THEN <<first, Text(msg[1])>>
    ELSE <<first, Text(msg[1]), Newline>> \o IndentedLines(Tail(msg), Indentation)

indented(err) == IndentedLines(err[1], Indentation)
indented_ind(err, n) == IndentedLines(err[1], Number(n))

\* One write to the sink. The sink fails from its failAt-th write on
\* (failAt = 0: it never fails); a failed write leaves nothing in out.
write_str(fm, tok) ==
    LET n == fm.attempts + 1
        fails == fm.failAt # 0 /\ n >= fm.failAt
    IN  [f |-> [fm EXCEPT !.attempts = n,
                          !.out = IF fails THEN @ ELSE Append(@, tok)],
         ok |-> ~fails]

\* write!(f, ...): the writes of one macro call, stopping at the first failure
RECURSIVE write(_, _)
write(fm, toks) ==
    IF toks = <<>> THEN [f |-> fm, ok |-> TRUE]
    ELSE LET w == write_str(fm, Head(toks))
         IN  IF w.ok THEN write(w.f, Tail(toks)) ELSE w

writeln_unchecked(fm) == [f |-> write_str(fm, Newline).f, ok |-> TRUE]

\* writeln!(f)?
writeln(fm) == write_str(fm, Newline)

alternate_ignored(fm) == FALSE

\* f.alternate()
alternate(fm) == fm.alternate

multiple_off_by_one(cause) == Len(source(cause)) > 1

\* let multiple = cause.source().is_some();
multiple(cause) == source(cause) # <<>>

entry_numbered_while_more_follow(fm, cause, n, mult) ==
    IF source(cause) # <<>> THEN write(fm, indented_ind(cause, n))
    ELSE write(fm, indented(cause))

\* the body of the for loop after writeln!(f)?
entry(fm, cause, n, mult) ==
    IF mult THEN write(fm, indented_ind(cause, n))
    ELSE write(fm, indented(cause))

\* for (n, error) in iter::successors(Some(cause), |e| e.source()).enumerate()
RECURSIVE for_errors(_, _, _, _)
for_errors(fm, cause, n, mult) ==
    IF cause = <<>> THEN [f |-> fm, ok |-> TRUE]
    ELSE LET nl == writeln(fm)
         IN  IF ~nl.ok THEN nl
             ELSE LET w == entry(nl.f, cause, n, mult)
                  IN  IF ~w.ok THEN w
                      ELSE for_errors(w.f, source(cause), n + 1, mult)

caused_by_always(fm, err) ==
    LET h == write(fm, <<CausedBy>>)
    IN  IF ~h.ok THEN h
        ELSE for_errors(h.f, source(err), 0, multiple(source(err)))

\* if let Some(cause) = error.source() { ... }
caused_by(fm, err) ==
    IF source(err) = <<>> THEN [f |-> fm, ok |-> TRUE]
    ELSE LET h == write(fm, <<CausedBy>>)
         IN  IF ~h.ok THEN h
             ELSE for_errors(h.f, source(err), 0, multiple(source(err)))

\* if let Some(backtrace) = &self.backtrace { write!(...)?; }
stack_backtrace(fm, handler) ==
    IF handler.backtrace = None THEN [f |-> fm, ok |-> TRUE]
    ELSE write(fm, <<StackBacktrace, BacktraceRepr>>)

\* <Handler as eyre::EyreHandler>::debug(&self, error, f)
debug(handler, err, fm) ==
    IF alternate(fm) THEN write(fm, <<DebugRepr(err)>>)
    ELSE LET top == write(fm, Display(err))
         IN  IF ~top.ok THEN top
             ELSE LET chain == caused_by(top.f, err)
                  IN  IF ~chain.ok THEN chain
                      ELSE stack_backtrace(chain.f, handler)

-----------------------------------------------------------------------------
(* Rendering: SpecDebug *)

Handlers == {[type |-> "Handler", backtrace |-> b] : b \in {None, SomeBacktrace}}

InitDebug ==
    /\ env = [name \in VarNames |-> Absent]
    /\ hook = NoHook
    /\ installLog = <<>>
    /\ reports = <<>>
    /\ self \in Handlers
    /\ error \in Errors
    /\ f \in {[alternate |-> a, failAt |-> k, out |-> <<>>, attempts |-> 0] :
                 a \in BOOLEAN, k \in 0..MaxFailAt}
    /\ ret = "pending"

\* one call of debug on a fresh formatter
Debug ==
    /\ ret = "pending"
    /\ LET r == debug(self, error, f)
       IN  /\ f' = r.f
           /\ ret' = IF r.ok THEN "Ok" ELSE "Err"
    /\ UNCHANGED <<env, hook, installLog, reports, self, error>>

NextDebug == Debug

SpecDebug == InitDebug /\ [][NextDebug]_vars

-----------------------------------------------------------------------------
(* Properties of the life cycle (checked under Spec) *)

LIB == "RUST_LIB_BACKTRACE"
GEN == "RUST_BACKTRACE"

\* the reports and install calls a step adds
NewReports == {i \in 1..Len(reports') : i > Len(reports)}
NewInstalls == {i \in 1..Len(installLog') : i > Len(installLog)}

Captured(report) == report.handler.backtrace = SomeBacktrace

\* C1: once an install of configuration A has succeeded, every later install
\* (builder or module level, any configuration) returns AlreadyInstalled, the
\* slot keeps A, and every report constructed afterwards has the handler
\* that A's make_handler produces.
C1_FirstInstallWins ==
    [][ /\ \A i \in NewInstalls :
              installLog'[i].result = "Ok" =>
                  /\ hook.kind = "none"
                  /\ hook' = StableHook(installLog'[i].builder)
        /\ hook.kind = "stable" =>
              /\ hook' = hook
              /\ \A i \in NewInstalls : installLog'[i].result = "AlreadyInstalled"
              /\ \A i \in NewReports :
                    reports'[i].handler = make_handler(hook.builder, env) ]_vars

\* an install of A succeeded, a later install of a different B failed, and a
\* report shows A's default where B's would have given the opposite
C1_Witness ==
    /\ Len(installLog) >= 2
    /\ installLog[1].result = "Ok"
    /\ installLog[2].result = "AlreadyInstalled"
    /\ installLog[2].builder # installLog[1].builder
    /\ hook = StableHook(installLog[1].builder)
    /\ env = [name \in VarNames |-> Absent]
    /\ \E i \in 1..Len(reports) :
          /\ reports[i].handler = make_handler(installLog[1].builder, env)
          /\ reports[i].handler # make_handler(installLog[2].builder, env)

\* C2 (as claimed): a present library-specific override decides alone ("0"
\* disables, anything else enables); with it absent, a present general
\* override decides in the same way.
C2_Precedence ==
    [][ \A i \in NewReports :
          hook'.kind = "stable" =>
              /\ env[LIB] # Absent =>
                    (Captured(reports'[i]) <=> env[LIB] # Str("0"))
              /\ (env[LIB] = Absent /\ env[GEN] # Absent) =>
                    (Captured(reports'[i]) <=> env[GEN] # Str("0")) ]_vars

\* C3: with neither variable set a report captures iff the installed
\* configuration's capture_backtrace_by_default is true; the module-level
\* install uses the default configuration (false), so it never captures then;
\* capture_backtrace_by_default(b) gives a configuration whose value is b.
C3_DefaultDecides ==
    [][ /\ \A i \in NewInstalls :
              /\ installLog'[i].via = "install" =>
                    installLog'[i].builder.capture_backtrace_by_default = FALSE
              /\ installLog'[i].via = "builder" =>
                    installLog'[i].builder.capture_backtrace_by_default
                        = installLog'[i].cond
        /\ \A i \in NewReports :
              (hook'.kind = "stable" /\ env[LIB] = Absent /\ env[GEN] = Absent) =>
                  /\ Captured(reports'[i])
                        <=> hook'.builder.capture_backtrace_by_default
                  /\ \A j \in 1..Len(installLog) :
                        (installLog[j].result = "Ok" /\ installLog[j].via = "install")
                            => ~Captured(reports'[i]) ]_vars

\* a builder configured with true was installed and a report captured with
\* neither variable set
C3_Witness ==
    /\ env = [name \in VarNames |-> Absent]
    /\ \E j \in 1..Len(installLog) :
          /\ installLog[j].result = "Ok"
          /\ installLog[j].via = "builder"
          /\ installLog[j].cond = TRUE
    /\ \E i \in 1..Len(reports) : Captured(reports[i])

\* C4: each report captures iff capture is enabled by the environment as it
\* is when that report is constructed (with the general override "1" and no
\* readable library-specific override, it captures), and a report already
\* constructed is never changed by a later step.
C4_DecidedAtConstruction ==
    [][ /\ Len(reports') >= Len(reports)
        /\ \A i \in 1..Len(reports) : reports'[i] = reports[i]
        /\ \A i \in NewReports :
              hook'.kind = "stable" =>
                  /\ Captured(reports'[i]) <=> capture_enabled(hook'.builder, env)
                  /\ (env[GEN] = Str("1") /\ env[LIB] = Absent) =>
                        backtrace(reports'[i]) = SomeBacktrace ]_vars

\* two reports made by the same installed factory, one with a captured stack
\* and one without: the environment changed between the two constructions
C4_Witness ==
    \E i, j \in 1..Len(reports) :
        /\ i < j
        /\ reports[i].handler.type = "Handler"
        /\ reports[j].handler.type = "Handler"
        /\ ~Captured(reports[i])
        /\ Captured(reports[j])
        /\ hook.builder.capture_backtrace_by_default = FALSE

\* C5: backtrace() always returns a value; it is None for every report whose
\* handler is not this library's Handler (a report made before any install,
\* or while another handler is active), and for a Handler report it is the
\* captured stack iff capture was enabled when the report was constructed.
C5_AccessorTotal ==
    [][ /\ \A i \in 1..Len(reports') :
              /\ backtrace(reports'[i]) \in {None, SomeBacktrace}
              /\ reports'[i].handler.type # "Handler" =>
                    backtrace(reports'[i]) = None
        /\ \A i \in NewReports :
              /\ hook.kind # "stable" => backtrace(reports'[i]) = None
              /\ hook.kind = "stable" =>
                    (backtrace(reports'[i]) = SomeBacktrace
                        <=> capture_enabled(hook.builder, env)) ]_vars

\* a report made while eyre's default or a foreign handler is active: the
\* handler holds a stack of its own and backtrace() returns None all the same
C5_Witness ==
    \E i \in 1..Len(reports) :
        /\ reports[i].handler.type # "Handler"
        /\ reports[i].handler.backtrace = SomeBacktrace
        /\ backtrace(reports[i]) = None

-----------------------------------------------------------------------------
(* Properties of Handler::debug (checked under SpecDebug) *)

Positions(tok) == {i \in 1..Len(f.out) : f.out[i] = tok}
IsText(t) == t.k = "text"
IsNumber(t) == t.k = "number"

RECURSIVE AllLines(_)
AllLines(chain) ==
    IF chain = <<>> THEN <<>>
    ELSE [i \in 1..Len(chain[1]) |-> Text(chain[1][i])] \o AllLines(Tail(chain))

\* the writes between the "Caused by:" header and the stack section
CauseBody ==
    SubSeq(f.out, Len(Display(error)) + 2,
           IF self.backtrace = None THEN Len(f.out) ELSE Len(f.out) - 2)

\* C6: in non-alternate mode the output is the error's display text, then the
\* "Caused by:" header with the cause entries iff the error has a cause, then
\* the "Stack backtrace:" section iff the handler holds a stack; an error
\* with no cause renders as exactly its display text and that section.
C6_SectionOrder ==
    (ret = "Ok" /\ ~f.alternate) =>
        LET top == Display(error)
            hasCause == Len(error) > 1
            hasStack == self.backtrace # None
            stack == IF hasStack THEN <<StackBacktrace, BacktraceRepr>> ELSE <<>>
        IN  /\ Len(f.out) >= Len(top) + Len(stack)
            /\ SubSeq(f.out, 1, Len(top)) = top
            /\ Positions(CausedBy) = IF hasCause THEN {Len(top) + 1} ELSE {}
            /\ Positions(StackBacktrace) = IF hasStack THEN {Len(f.out) - 1} ELSE {}
            /\ Positions(BacktraceRepr) = IF hasStack THEN {Len(f.out)} ELSE {}
            /\ hasCause => SelectSeq(CauseBody, IsText) # <<>>
            /\ ~hasCause => f.out = top \o stack

\* an error with a cause rendered by a handler that holds a stack
C6_Witness ==
    /\ ret = "Ok"
    /\ ~f.alternate
    /\ Len(error) > 1
    /\ self.backtrace = SomeBacktrace
    /\ Positions(CausedBy) # {}
    /\ Positions(StackBacktrace) # {}

\* C7: in non-alternate mode there is one entry per cause, closest cause
\* first; with two or more causes every entry carries its 0-based position,
\* with exactly one cause the entry carries no number; "outer" caused by
\* "middle" caused by "inner" without a stack renders as outer, the header,
\* entry 0 middle, entry 1 inner.
C7_CauseEntries ==
    (ret = "Ok" /\ ~f.alternate /\ Len(error) > 1) =>
        LET causes == Tail(error)
            body == CauseBody
        IN  /\ SelectSeq(body, IsText) = AllLines(causes)
            /\ SelectSeq(body, IsNumber) =
                  IF Len(causes) >= 2
                  THEN [i \in 1..Len(causes) |-> Number(i - 1)]
                  ELSE <<>>
            /\ \A i \in 1..Len(body) :
                  IsNumber(body[i]) =>
                      /\ i > 1
                      /\ i < Len(body)
                      /\ body[i - 1] = Newline
                      /\ body[i + 1] = Text(causes[body[i].n + 1][1])
            /\ body[1] = Newline
            /\ (/\ error = << <<"outer">>, <<"middle">>, <<"inner">> >>
                /\ self.backtrace = None) =>
                  f.out = <<Text("outer"), CausedBy,
                            Newline, Number(0), Text("middle"),
                            Newline, Number(1), Text("inner")>>

\* a chain of two causes rendered with both entries numbered
C7_Witness ==
    /\ ret = "Ok"
    /\ ~f.alternate
    /\ Len(error) = 3
    /\ Positions(Number(0)) # {}
    /\ Positions(Number(1)) # {}

\* C8: in alternate mode debug writes the error's Debug rendering and nothing
\* else: no "Caused by:" section and no "Stack backtrace:" section, whatever
\* the error's causes and the handler's stack are.
C8_AlternateBypasses ==
    (ret # "pending" /\ f.alternate) =>
        /\ Positions(CausedBy) = {}
        /\ Positions(StackBacktrace) = {}
        /\ \A i \in 1..Len(f.out) : f.out[i] = DebugRepr(error)
        /\ ret = "Ok" => f.out = <<DebugRepr(error)>>

\* alternate rendering of an error with causes by a handler holding a stack
C8_Witness ==
    /\ ret = "Ok"
    /\ f.alternate
    /\ Len(error) > 1
    /\ self.backtrace = SomeBacktrace
    /\ f.out = <<DebugRepr(error)>>

\* C10: debug returns the failure iff one of its writes fails; it then has
\* attempted no write after the failed one and has written exactly what
\* precedes it; it returns success only if every write succeeded; the
\* handler is left as it was.
C10_WriteFailureAborts ==
    [][ (ret = "pending" /\ ret' # "pending") =>
          LET full == debug(self, error, [f EXCEPT !.failAt = 0]).f.out
          IN  /\ self' = self
              /\ ret' = "Err" <=> (f.failAt # 0 /\ f.failAt <= Len(full))
              /\ ret' = "Err" =>
                    /\ f'.attempts = f.failAt
                    /\ f'.out = SubSeq(full, 1, f.failAt - 1)
              /\ ret' = "Ok" =>
                    /\ f'.attempts = Len(f'.out)
                    /\ f'.out = full ]_vars

\* a rendering cut short by a failed write after the "Caused by:" header
C10_Witness ==
    /\ ret = "Err"
    /\ ~f.alternate
    /\ f.attempts = f.failAt
    /\ Positions(CausedBy) # {}
    /\ Len(f.out) = f.failAt - 1

====
